---- MODULE Spec2Model ----
(***************************************************************************)
(* Model of the FLC analyzer's waveform engine: DataManager (segmentation  *)
(* of a waveform into monotonic regions), Region (knee point, t40/t60,     *)
(* tau, alpha) and the FLCAnalyzer handlers that drive the manager.       *)
(*                                                                         *)
(* Numbers.  Waveforms have integer voltages and the time axis 0, 1, ...,  *)
(* N-1, so np.gradient takes its uniform-spacing branch.  Every            *)
(* derivative is kept multiplied by 2 (a half-integer becomes an integer); *)
(* a threshold comparison  x > m * 0.8  is evaluated as  10*x > 8*m, and   *)
(* likewise for 0.9, 0.4, 0.6, 0.05 and 0.95.  Sequences are indexed as in *)
(* Python (0-based, negative indexes count from the end) through At.       *)
(***************************************************************************)
EXTENDS Integers, Sequences, FiniteSets, TLC

\* ------------------------------------------------------------------------
\* Python sequence access
\* ------------------------------------------------------------------------

\* s[i] of a Python list / numpy array: negative i counts from the end
At(s, i) == IF i >= 0 THEN s[i + 1] ELSE s[Len(s) + i + 1]

\* i in s
Member(s, x) == \E n \in 1..Len(s) : s[n] = x

\* max(s) and min(s)
SeqMax(s) == CHOOSE x \in {s[n] : n \in 1..Len(s)} : \A n \in 1..Len(s) : s[n] <= x
SeqMin(s) == CHOOSE x \in {s[n] : n \in 1..Len(s)} : \A n \in 1..Len(s) : s[n] >= x

\* F applied to the value of x: x is evaluated once, before F starts
Eval(x, F(_)) == CHOOSE r \in {F(v) : v \in {x}} : TRUE

\* for i in range(lo, hi + 1): s = Body(s, i).  The range is split in halves
\* and the first half is evaluated before the second starts.
RECURSIVE ForRange(_, _, _, _)
ForRange(Body(_, _), s, lo, hi) ==
    IF lo > hi THEN s
    ELSE IF lo = hi THEN Body(s, lo)
    ELSE Eval((lo + hi) \div 2, LAMBDA mid :
           Eval(ForRange(Body, s, lo, mid), LAMBDA left :
             ForRange(Body, left, mid + 1, hi)))

\* ------------------------------------------------------------------------
\* np.gradient(voltage, time) for time = 0..N-1, multiplied by 2
\* ------------------------------------------------------------------------
gradient(voltage) ==
    LET N == Len(voltage) IN
    [n \in 1..N |->
        IF n = 1 THEN 2 * (voltage[2] - voltage[1])
        ELSE IF n = N THEN 2 * (voltage[N] - voltage[N - 1])
        ELSE voltage[n + 1] - voltage[n - 1]]

\* x > m * 0.8   and   x < m * 0.8   (threshold = 0.8 in load_data)
AboveThreshold(x, m) == 10 * x > 8 * m
BelowThreshold(x, m) == 10 * x < 8 * m

\* ------------------------------------------------------------------------
\* load_data, first loop: indexes of the extreme values of dv/dt
\* ------------------------------------------------------------------------
\* one iteration; s holds local_max_index, local_min_index and ext_indexes
ScanExtrema(dv_dt, max_rise, min_fall, s, i) ==
    IF AboveThreshold(At(dv_dt, i), max_rise)
    THEN IF At(dv_dt, i) > At(dv_dt, i - 1)
         THEN [s EXCEPT !.local_max_index = i] ELSE s
    ELSE IF BelowThreshold(At(dv_dt, i), min_fall)
    THEN IF At(dv_dt, i) < At(dv_dt, i - 1)
         THEN [s EXCEPT !.local_min_index = i] ELSE s
    ELSE LET e1 == IF s.local_max_index # 0
                   THEN Append(s.ext_indexes, s.local_max_index) ELSE s.ext_indexes
             e2 == IF s.local_min_index # 0
                   THEN Append(e1, s.local_min_index) ELSE e1
         IN [local_max_index |-> 0, local_min_index |-> 0, ext_indexes |-> e2]

ext_indexes_of(dv_dt) ==
    Eval(<<SeqMax(dv_dt), SeqMin(dv_dt)>>, LAMBDA m :
      ForRange(LAMBDA s, i : ScanExtrema(dv_dt, m[1], m[2], s, i),
               [local_max_index |-> 0, local_min_index |-> 0, ext_indexes |-> <<>>],
               0, Len(dv_dt) - 1).ext_indexes)

\* the indexes at which the first loop subscripts dv_dt, as written in the
\* code (i - 1 is -1 at i = 0): dv_dt[i] in every iteration and dv_dt[i - 1]
\* when dv_dt[i] passes a threshold
ScanReads(dv_dt) ==
    LET max_rise == SeqMax(dv_dt)
        min_fall == SeqMin(dv_dt)
    IN UNION {{i} \cup
              (IF \/ AboveThreshold(At(dv_dt, i), max_rise)
                  \/ BelowThreshold(At(dv_dt, i), min_fall)
               THEN {i - 1} ELSE {}) : i \in 0..(Len(dv_dt) - 1)}

\* ------------------------------------------------------------------------
\* load_data, second loop: borders of the monotonic regions
\* ------------------------------------------------------------------------

\* the 'while True' walk from i towards smaller indexes: it stops at the
\* first j <= i with dv_dt[j - 1] <= 0 (>= 0 for a falling extremum) and runs
\* into IndexError when there is none down to j - 1 = -N
BorderWalk(dv_dt, i, rising) ==
    Eval({j \in (1 - Len(dv_dt))..i :
            IF rising THEN At(dv_dt, j - 1) <= 0 ELSE At(dv_dt, j - 1) >= 0},
         LAMBDA js :
           IF js = {} THEN [exc |-> "IndexError"]
           ELSE [exc |-> "none", j |-> CHOOSE j \in js : \A j2 \in js : j2 <= j])

\* the indexes at which that walk subscripts dv_dt: j - 1 for every j it
\* passes, down to the j it stops at or to -N when it stops nowhere
WalkReads(dv_dt, i, rising) ==
    Eval(BorderWalk(dv_dt, i, rising), LAMBDA w :
      {j - 1 : j \in (IF w.exc = "none" THEN w.j ELSE 1 - Len(dv_dt))..i})

\* one iteration; s holds bor_indexes, the exception raised and the break
BorderLoop(dv_dt, ext_indexes, s, i) ==
    IF s.done THEN s
    ELSE IF Member(ext_indexes, i) /\ At(dv_dt, i) # 0
    THEN Eval(BorderWalk(dv_dt, i, At(dv_dt, i) > 0), LAMBDA w :
           IF w.exc # "none" THEN [s EXCEPT !.exc = w.exc, !.done = TRUE]
           ELSE [s EXCEPT !.bor = Append(s.bor, w.j),
                          !.done = (i > ext_indexes[Len(ext_indexes)])])
    ELSE [s EXCEPT !.done = (i > ext_indexes[Len(ext_indexes)])]

\* the indexes at which the second loop subscripts dv_dt: it visits the i
\* of range(ext_indexes[0], N) up to the first one past ext_indexes[-1],
\* walks from those that are in ext_indexes, and ends at the first walk that
\* raises
BorderReads(dv_dt, ext_indexes) ==
    IF ext_indexes = <<>> THEN {}
    ELSE
      LET N       == Len(dv_dt)
          first   == ext_indexes[1]
          past    == ext_indexes[Len(ext_indexes)] + 1
          stop    == IF past > first THEN past ELSE first
          visited == {i \in first..(IF stop < N - 1 THEN stop ELSE N - 1) :
                        Member(ext_indexes, i) /\ At(dv_dt, i) # 0}
          ok(i)   == BorderWalk(dv_dt, i, At(dv_dt, i) > 0).exc = "none"
          walked  == {i \in visited : \A k \in visited : k < i => ok(k)}
      IN UNION {{i} \cup WalkReads(dv_dt, i, At(dv_dt, i) > 0) : i \in walked}

bor_indexes_of(dv_dt, ext_indexes) ==
    IF ext_indexes = <<>> THEN [exc |-> "IndexError", bor |-> <<>>, done |-> TRUE]
    ELSE ForRange(LAMBDA s, i : BorderLoop(dv_dt, ext_indexes, s, i),
                  [exc |-> "none", bor |-> <<>>, done |-> FALSE],
                  ext_indexes[1], Len(dv_dt) - 1)

\* ------------------------------------------------------------------------
\* Exact fractions for the float fields of a Region
\* ------------------------------------------------------------------------
Abs(x) == IF x < 0 THEN -x ELSE x

RECURSIVE GCD(_, _)
GCD(a, b) == IF b = 0 THEN a ELSE GCD(b, a % b)

\* the fraction n/d in lowest terms (d # 0)
Rat(n, d) ==
    LET g == GCD(Abs(n), Abs(d))
        sg == IF d < 0 THEN -1 ELSE 1
    IN [num |-> sg * (n \div g), den |-> sg * (d \div g)]

\* ------------------------------------------------------------------------
\* Region.__init__
\* ------------------------------------------------------------------------

\* the first i in lo..hi with P(i), or -1 when the loop ends without a break
FirstIndex(lo, hi, P(_)) ==
    IF \E i \in lo..hi : P(i)
    THEN CHOOSE i \in lo..hi : P(i) /\ \A j \in lo..(i - 1) : ~P(j)
    ELSE -1

\* x as the branch taken compares it: the decreasing branch is the
\* increasing one with the signs of voltage and derivative flipped
Directed(x, increasing) == [m \in 1..Len(x) |-> IF increasing THEN x[m] ELSE -x[m]]

\* "move pointer index to pike of the rise and break if reached below
\* threshold": one iteration; D is the derivative seen in the Region's
\* direction, s holds p and the break
PeakLoop(D, steep, s, i) ==
    IF s.done THEN s
    ELSE [p |-> IF D[i + 1] > D[i] THEN i ELSE s.p,
          done |-> 10 * D[i + 1] < 9 * steep]

\* the pointer after the three loops that lead to the knee point: to the
\* first derivative above 90% of the steepest, to the peak, and to the next
\* local minimum.  The last loop reads D[i + 1], which raises IndexError at
\* the last index: the result is then -1
KneeIndex(D, steep) ==
    Eval(FirstIndex(0, Len(D) - 1, LAMBDA i : 10 * D[i + 1] > 9 * steep), LAMBDA f1 :
      Eval(IF f1 = -1 THEN 0 ELSE f1, LAMBDA p1 :
        Eval(ForRange(LAMBDA s, i : PeakLoop(D, steep, s, i),
                      [p |-> p1, done |-> FALSE], p1 + 1, Len(D) - 1).p, LAMBDA p2 :
          FirstIndex(p2, Len(D) - 2, LAMBDA i : D[i + 2] > D[i + 1]))))

\* a gradient that accepts any number of points
differentiable_always(kept) == TRUE

\* np.gradient(u_norm, t_norm) needs two points at least
differentiable(kept) == Len(kept) >= 2

\* the fields of the Region once the knee index k, the indexes i40 and i60
\* of the t40 and t60 points (-1: not found, the point stays (0, 0)) and the
\* indexes kept by the filter are known
RegionFields(time, voltage, increasing, u_p, u_c, k, i40, i60, kept) ==
    LET V      == Directed(voltage, increasing)
        t_norm == [m \in 1..Len(kept) |-> time[kept[m] + 1] - time[k + 1]]
        \* u_norm[m] = u_num[m] / u_p
        u_num  == [m \in 1..Len(kept) |-> 2 * (V[kept[m] + 1] - V[k + 1]) - u_p]
        t40_time == IF i40 = -1 THEN 0 ELSE time[i40 + 1]
        t60_time == IF i60 = -1 THEN 0 ELSE time[i60 + 1]
        tau == Rat((t60_time - t40_time) * 1000000, 405465)
    IN  IF kept # <<>> /\ u_p = 0 THEN [exc |-> "ZeroDivisionError"]
        ELSE IF ~differentiable(kept) THEN [exc |-> "ValueError"]
        ELSE IF \E m \in 1..Len(kept) : u_num[m] = 0 THEN [exc |-> "ZeroDivisionError"]
        ELSE [exc |-> "none",
              region |->
                [time |-> time, voltage |-> voltage, increasing |-> increasing,
                 knee_point_time |-> time[k + 1],
                 knee_point_voltage |-> voltage[k + 1],
                 t40_time |-> t40_time,
                 t40_voltage |-> IF i40 = -1 THEN 0 ELSE voltage[i40 + 1],
                 t60_time |-> t60_time,
                 t60_voltage |-> IF i60 = -1 THEN 0 ELSE voltage[i60 + 1],
                 u_p |-> u_p, u_c |-> u_c, tau |-> tau,
                 alpha |-> [t_norm |-> t_norm, u_num |-> u_num, u_p |-> u_p, tau |-> tau],
                 u_in |-> Rat(10, 1), d |-> Rat(3, 1000000), S |-> Rat(100, 1000000),
                 C |-> Rat(30, 1000000000), t_ang |-> Rat(45, 180), s_p |-> Rat(0, 1)]]

\* from the knee index on: the t40 and t60 loops and the filter
RegionPoints(time, voltage, increasing, u_p, u_c, k) ==
    LET n == Len(time)
        V == Directed(voltage, increasing)
    IN
    Eval(FirstIndex(k, n - 1, LAMBDA i : ~(10 * V[i + 1] < 10 * V[k + 1] + 4 * u_p)),
         LAMBDA i40 :
    Eval(FirstIndex(IF i40 = -1 THEN k ELSE i40, n - 1,
                    LAMBDA i : ~(10 * V[i + 1] < 10 * V[k + 1] + 6 * u_p)),
         LAMBDA i60 :
    Eval(SelectSeq([m \in 1..(n - k) |-> k + m - 1],
                   LAMBDA i :
                     /\ ~(100 * V[i + 1] < 100 * V[k + 1] + 5 * u_p)
                     /\ ~(100 * V[i + 1] > 100 * V[k + 1] + 95 * u_p)
                     /\ ~(/\ time[i + 1] > (IF i40 = -1 THEN 0 ELSE time[i40 + 1])
                          /\ time[i + 1] < (IF i60 = -1 THEN 0 ELSE time[i60 + 1]))),
         LAMBDA kept :
           RegionFields(time, voltage, increasing, u_p, u_c, k, i40, i60, kept))))

\* "calculate polarization voltage": self.u_p
polarization_voltage(voltage, p, max_voltage, min_voltage, increasing) ==
    IF increasing THEN max_voltage - voltage[p + 1]
    ELSE voltage[p + 1] - min_voltage

\* a capacitance voltage with the operands of the decreasing branch swapped
capacitance_voltage_swapped(voltage, p, max_voltage, min_voltage, increasing) ==
    IF increasing THEN voltage[p + 1] - min_voltage
    ELSE voltage[p + 1] - max_voltage

\* "capacitance voltage": self.u_c
capacitance_voltage(voltage, p, max_voltage, min_voltage, increasing) ==
    IF increasing THEN voltage[p + 1] - min_voltage
    ELSE max_voltage - voltage[p + 1]

Region(time, voltage, dv_dt, increasing) ==
    IF Len(time) = 0 THEN [exc |-> "ValueError"]
    ELSE
      Eval(<<SeqMax(voltage), SeqMin(voltage),
             IF increasing THEN SeqMax(dv_dt) ELSE -SeqMin(dv_dt)>>, LAMBDA m :
      Eval(KneeIndex(Directed(dv_dt, increasing), m[3]), LAMBDA k :
        IF k = -1 THEN [exc |-> "IndexError"]
        ELSE RegionPoints(time, voltage, increasing,
                          polarization_voltage(voltage, k, m[1], m[2], increasing),
                          capacitance_voltage(voltage, k, m[1], m[2], increasing),
                          k)))

\* ------------------------------------------------------------------------
\* load_data, third loop: the monotonic regions
\* ------------------------------------------------------------------------

\* [x[j] for j in range(lo, hi)]
Slice(x, lo, hi) == [m \in 1..(hi - lo) |-> At(x, lo + m - 1)]

\* one iteration; s holds buffer, the increasing/decreasing flags (as
\* direction), the Regions appended to self.regions so far by this call, the
\* exception raised and the break
RegionLoop(time, voltage, dv_dt, bor_indexes, s, i) ==
    IF s.done THEN s
    ELSE
      LET hit    == Member(bor_indexes, i) /\ At(dv_dt, i) # 0
          rising == At(dv_dt, i) > 0
          next   == [buffer    |-> IF hit THEN i ELSE s.buffer,
                     direction |-> IF hit
                                   THEN (IF rising THEN "increasing" ELSE "decreasing")
                                   ELSE s.direction,
                     built     |-> s.built,
                     exc       |-> "none",
                     done      |-> i > bor_indexes[Len(bor_indexes)]]
      IN \* a rising border closes a pending decreasing window and a
         \* falling border a pending increasing one
         IF hit /\ s.direction = (IF rising THEN "decreasing" ELSE "increasing")
         THEN Eval(<<Slice(time, s.buffer, i), Slice(voltage, s.buffer, i),
                     Slice(dv_dt, s.buffer, i)>>, LAMBDA w :
                Eval(Region(w[1], w[2], w[3], ~rising), LAMBDA r :
                  IF r.exc # "none" THEN [s EXCEPT !.exc = r.exc, !.done = TRUE]
                  ELSE [next EXCEPT !.built = Append(s.built, r.region)]))
         ELSE next

\* the third loop, once the derivative and the borders are known
RegionsOf(time, voltage, dv_dt, bor_indexes) ==
    ForRange(LAMBDA s, i : RegionLoop(time, voltage, dv_dt, bor_indexes, s, i),
             [buffer |-> 0, direction |-> "none", built |-> <<>>,
              exc |-> "none", done |-> FALSE],
             bor_indexes[1], Len(time) - 1)

\* The effect of load_data(time, voltage) with time = 0..N-1: the Regions it
\* appends to self.regions, in order, and the exception it ends with
\* ("none": it returns and sets data_loaded), and where that exception
\* was raised (at): in np.gradient, at ext_indexes[0], in the border walk,
\* at bor_indexes[0] or in Region.__init__.
segment(voltage) ==
    IF Len(voltage) < 2
    THEN [exc |-> "ValueError", built |-> <<>>, at |-> "np.gradient"]
    ELSE
      Eval(gradient(voltage), LAMBDA dv_dt :
      Eval(ext_indexes_of(dv_dt), LAMBDA ext :
      Eval(bor_indexes_of(dv_dt, ext), LAMBDA bor :
        IF bor.exc # "none"
        THEN [exc |-> bor.exc, built |-> <<>>,
              at |-> IF ext = <<>> THEN "ext_indexes[0]" ELSE "border walk"]
        ELSE IF bor.bor = <<>>
        THEN [exc |-> "IndexError", built |-> <<>>, at |-> "bor_indexes[0]"]
        ELSE Eval(RegionsOf([n \in 1..Len(voltage) |-> n - 1], voltage, dv_dt, bor.bor),
                  LAMBDA run : [exc |-> run.exc, built |-> run.built,
                                at |-> IF run.exc = "none" THEN "" ELSE "Region"]))))

\* ------------------------------------------------------------------------
\* Region: parameter updates and get_sp
\* ------------------------------------------------------------------------

\* a * b for fractions, cancelling across before multiplying
RatMul(a, b) ==
    LET g1 == GCD(Abs(a.num), Abs(b.den))
        g2 == GCD(Abs(b.num), Abs(a.den))
        h1 == IF g1 = 0 THEN 1 ELSE g1
        h2 == IF g2 = 0 THEN 1 ELSE g2
    IN Rat((a.num \div h1) * (b.num \div h2), (a.den \div h2) * (b.den \div h1))

\* a / b for fractions (b # 0)
RatDiv(a, b) == RatMul(a, [num |-> b.den, den |-> b.num])

region_update_input_voltage(r, u_in) == [r EXCEPT !.u_in = Rat(u_in, 1)]
\* an update that rescales the stored thickness when it is given again
region_update_thickness_again(r, d) ==
    [r EXCEPT !.d = IF r.d = Rat(d, 1000000) THEN Rat(d, 1000) ELSE Rat(d, 1000000)]
region_update_thickness(r, d) == [r EXCEPT !.d = Rat(d, 1000000)]
\* an update of the area that also forgets the stored s_p
region_update_area_reset(r, S) == [r EXCEPT !.S = Rat(S, 1000000), !.s_p = Rat(0, 1)]
region_update_area(r, S) == [r EXCEPT !.S = Rat(S, 1000000)]
region_update_capacitance(r, C)      == [r EXCEPT !.C = Rat(C, 1000000000)]
\* np.radians: the angle is kept as a fraction of pi
region_update_tilt_angle(r, t_ang)   == [r EXCEPT !.t_ang = Rat(t_ang, 180)]

\* Region.get_sp stores self.s_p = (u_p * C) / (2 * S) before returning it
region_get_sp(r) ==
    [r EXCEPT !.s_p = RatDiv(RatMul(Rat(r.u_p, 1), r.C), RatMul(Rat(2, 1), r.S))]

\* Region.get_borders
get_borders(r) == <<r.time[1], r.time[Len(r.time)]>>

\* a + b for fractions
RatAdd(a, b) ==
    LET g == GCD(a.den, b.den)
    IN Rat(a.num * (b.den \div g) + b.num * (a.den \div g), (a.den \div g) * b.den)

\* what Region.get_sp returns once self.s_p is stored: s_p * 100000
region_sp_value(r) == RatMul(region_get_sp(r).s_p, Rat(100000, 1))

\* 1 / 0.405465, the factor between t60_time - t40_time and tau
TauUnit == Rat(1000000, 405465)

\* Region.get_rv: 10 * (self.tau * self.s_p * self.u_in) / self.d, read from
\* the stored self.s_p.  The value is given in units of TauUnit (the value
\* itself leaves the 32-bit integers of the fraction).
region_get_rv(r) ==
    RatMul(RatDiv(RatMul(RatMul(RatDiv(r.tau, TauUnit), r.s_p), r.u_in), r.d),
           Rat(10, 1))

\* Region.get_da: alpha * self.s_p * self.d / (u_in * e0 * sin(t_ang)**2),
\* read from the stored self.s_p.  alpha, e0 and the sine stay symbolic: the
\* value is alpha * coef * 10^-9 / (e0 * sin(t_ang * pi)^2).
region_get_da(r) ==
    [alpha |-> r.alpha,
     coef  |-> RatDiv(RatMul(r.s_p, RatMul(r.d, Rat(1000000000, 1))), r.u_in),
     t_ang |-> r.t_ang]

\* ------------------------------------------------------------------------
\* DataManager
\* ------------------------------------------------------------------------
\* a clear that leaves the list as it is
clear_data_keep(rs) == rs

\* self.regions.clear()
clear_data(rs) == <<>>

is_data_loaded(loaded) == loaded

update_input_voltage(rs, x) == [m \in 1..Len(rs) |-> region_update_input_voltage(rs[m], x)]
update_thickness(rs, x)     == [m \in 1..Len(rs) |-> region_update_thickness(rs[m], x)]
update_area(rs, x)          == [m \in 1..Len(rs) |-> region_update_area(rs[m], x)]
update_capacitance(rs, x)   == [m \in 1..Len(rs) |-> region_update_capacitance(rs[m], x)]
update_tilt_angle(rs, x)    == [m \in 1..Len(rs) |-> region_update_tilt_angle(rs[m], x)]

\* sum(x) of a list of fractions
RECURSIVE RatSum(_)
RatSum(xs) ==
    IF xs = <<>> THEN Rat(0, 1)
    ELSE RatAdd(RatSum(SubSeq(xs, 1, Len(xs) - 1)), xs[Len(xs)])

\* sum(x) / len(x) of a non-empty list of fractions
RatMean(xs) == RatDiv(RatSum(xs), Rat(Len(xs), 1))

\* sum(x) / len(x) of a non-empty list of symbolic values: (0 + x) / 1 is x,
\* a longer sum stays symbolic
SymMean(xs) == IF Len(xs) = 1 THEN xs[1] ELSE [sum |-> xs, len |-> Len(xs)]

\* DataManager.get_sp: calls get_sp of every Region, then divides by len.
\* exc is the exception it ends with, regions the list with every self.s_p
\* stored.
get_sp(rs) ==
    [exc |-> IF rs = <<>> THEN "ZeroDivisionError" ELSE "none",
     regions |-> [m \in 1..Len(rs) |-> region_get_sp(rs[m])]]

\* what DataManager.get_sp returns: <<the value>>, or <<>> when it raises
get_sp_value(rs) ==
    IF rs = <<>> THEN <<>>
    ELSE <<RatMean([m \in 1..Len(rs) |-> region_sp_value(rs[m])])>>

\* a get_rv that answers with the value of the first Region
get_rv_first(rs) ==
    [exc |-> IF rs = <<>> THEN "ZeroDivisionError" ELSE "none",
     ret |-> IF rs = <<>> THEN <<>> ELSE <<region_get_rv(rs[1])>>]

\* DataManager.get_rv
get_rv(rs) ==
    [exc |-> IF rs = <<>> THEN "ZeroDivisionError" ELSE "none",
     ret |-> IF rs = <<>> THEN <<>>
             ELSE <<RatMean([m \in 1..Len(rs) |-> region_get_rv(rs[m])])>>]

\* a get_da that answers nan on an empty list
get_da_silent(rs) ==
    [exc |-> "none",
     ret |-> IF rs = <<>> THEN <<"nan">>
             ELSE <<SymMean([m \in 1..Len(rs) |-> region_get_da(rs[m])])>>]

\* DataManager.get_da
get_da(rs) ==
    [exc |-> IF rs = <<>> THEN "ZeroDivisionError" ELSE "none",
     ret |-> IF rs = <<>> THEN <<>>
             ELSE <<SymMean([m \in 1..Len(rs) |-> region_get_da(rs[m])])>>]

\* DataManager.get_chosen_region(x), x given as x2 = 2x: the index in the
\* list of the Region returned, or <<>> for the None returned when the loop
\* ends
get_chosen_region(rs, x2) ==
    LET inside(m) == /\ x2 > 2 * get_borders(rs[m])[1]
                     /\ x2 < 2 * get_borders(rs[m])[2]
    IN IF \E m \in 1..Len(rs) : inside(m)
       THEN <<CHOOSE m \in 1..Len(rs) : inside(m) /\ \A n \in 1..(m - 1) : ~inside(n)>>
       ELSE <<>>

\* ------------------------------------------------------------------------
\* Inputs: the waveforms a file can deliver (voltages; time is 0..N-1)
\* ------------------------------------------------------------------------
MaxLen   == 3   \* longest exhaustively enumerated waveform
MaxEdges == 2   \* most edges of an exhaustively enumerated square-wave response

\* every waveform of at most MaxLen samples over the voltages 0 and 1
SmallWaves == UNION {[1..n -> {0, 1}] : n \in 1..MaxLen}

\* Square-wave responses: two samples at 0, then up to MaxEdges edges, each
\* followed by a two-sample plateau.  "R"/"F": a switching transient (jump,
\* knee, relaxation) up/down; "d": a one-sample noise dip (no plateau);
\* "G": a transient down of twice the height and "f": a slow linear ramp
\* down, both used in SpecialWords only.
EdgeShape(e) ==
    CASE e = "R" -> <<3, 1, 2, 2, 1, 0, 0>>
      [] e = "F" -> <<-3, -1, -2, -2, -1, 0, 0>>
      [] e = "G" -> <<-6, -2, -4, -4, -2, 0, 0>>
      [] e = "f" -> <<-1, -1, -1, 0, 0>>
      [] e = "d" -> <<-1, 1>>

RECURSIVE Integrate(_, _)
Integrate(v, deltas) ==
    IF deltas = <<>> THEN v
    ELSE Integrate(Append(v, v[Len(v)] + Head(deltas)), Tail(deltas))

RECURSIVE EdgeWave(_, _)
EdgeWave(v, word) ==
    IF word = <<>> THEN v
    ELSE EdgeWave(Integrate(v, EdgeShape(Head(word))), Tail(word))

EdgeWords == UNION {[1..n -> {"R", "F", "d"}] : n \in 1..MaxEdges}
EdgeWaves == {EdgeWave(<<0, 0>>, word) : word \in EdgeWords}

\* further responses: three alternating transients (two Regions), a noise
\* dip between two transients, a slow fall between the transients (windows
\* on which Region.__init__ raises ValueError or ZeroDivisionError, or which
\* keep a sub-threshold fall inside an increasing Region), a step that is
\* followed by a second step in the same direction, and a response whose
\* two Regions differ in u_p
SpecialWords ==
    {<<"R", "F", "R">>, <<"F", "R", "F">>, <<"R", "d", "F">>, <<"R", "d", "R">>,
     <<"f", "d", "R">>, <<"F", "f", "R">>, <<"R", "f", "F">>, <<"R", "f", "R">>,
     <<"F", "R", "R", "F">>, <<"R", "F", "F", "R">>, <<"R", "G", "R">>}
SpecialWaves == {EdgeWave(<<0, 0>>, word) : word \in SpecialWords}

\* time = [0..99]; voltage 0 up to sample 10, rising linearly to 10 at
\* sample 20, 10 until sample 80, falling linearly to 0 at sample 90
RampWave ==
    [n \in 1..100 |->
        LET i == n - 1 IN
        IF i <= 10 THEN 0 ELSE IF i <= 20 THEN i - 10
        ELSE IF i <= 80 THEN 10 ELSE IF i <= 90 THEN 90 - i ELSE 0]

\* a ringing response: after the knee the voltage comes back above 40% of
\* the overshoot but stays below 60% of it
RingingWave == <<0, 0, 5, 0, 2, 1, 4, 0, 0>>

\* a notch: a fall that is followed by a rise with no sample between the
\* two whose derivative is inside the band
NotchWave == <<0, 0, -4, -4, 0, 0>>

\* a response that is rising at its first and at its last sample
RisingEndsWave == <<0, 1, 4, 5, 5, 5, 6>>

\* a response whose derivative is positive at every sample
RisingWave == <<0, 1, 4, 5, 5, 6>>

Waveforms ==
    SmallWaves \cup EdgeWaves \cup SpecialWaves
      \cup {RampWave, RingingWave, NotchWave, RisingEndsWave, RisingWave}

\* load_data's effect on each waveform and on no sample at all (segment is
\* a function of its input)
\* (tabulated once: comparing the function evaluates it on every waveform)
Segmented ==
    Eval([w \in Waveforms \cup {<<>>} |-> segment(w)], LAMBDA table :
      IF table = table THEN table ELSE table)

\* ------------------------------------------------------------------------
\* State
\* ------------------------------------------------------------------------
\* regions:     DataManager.regions
\* data_loaded: DataManager.data_loaded
\* entries:     FLCAnalyzer's entry texts, each <<>> (empty) or <<number>>
\* last:        the call that produced this state: its name, its waveform,
\*              how its load_data ended (exc) and what it raised (raised)
\*              and, for the update methods and accessors of the manager,
\*              what it returned (ret: <<>> or <<value>>)
VARIABLES regions, data_loaded, entries, last

vars == <<regions, data_loaded, entries, last>>

Fields == {"u_in", "d", "S", "C", "t_ang"}

\* the StringVar defaults of FLCAnalyzer.__init__
DefaultEntries ==
    [u_in |-> <<10>>, d |-> <<3>>, S |-> <<100>>, C |-> <<30>>, t_ang |-> <<45>>]

MaxEdited == 1  \* most entries that differ from their default at a time
EntryTexts == {<<>>, <<2>>}

Init ==
    /\ regions = <<>>
    /\ data_loaded = FALSE
    /\ entries = DefaultEntries
    /\ last = [op |-> "init", arg |-> <<>>, exc |-> "none", raised |-> "none"]

\* ------------------------------------------------------------------------
\* DataManager methods called directly
\* ------------------------------------------------------------------------
MaxRegions == 2  \* load_data is not called when the list would grow past this

LoadData(w) ==
    LET s == Segmented[w] IN
    /\ Len(regions) + Len(s.built) <= MaxRegions
    /\ regions' = regions \o s.built
    /\ data_loaded' = IF s.exc = "none" THEN TRUE ELSE data_loaded
    /\ last' = [op |-> "load_data", arg |-> w, exc |-> s.exc, raised |-> s.exc]
    /\ UNCHANGED entries

ClearData ==
    /\ regions' = clear_data(regions)
    /\ last' = [op |-> "clear_data", arg |-> <<>>, exc |-> "none", raised |-> "none"]
    /\ UNCHANGED <<data_loaded, entries>>

\* the waveforms loaded before the accessors are called: no Region, one
\* Region, two Regions of different u_p, and the ringing response
AccessWords == {<<"d">>, <<"R", "F">>, <<"R", "G", "R">>}
AccessWaves == {EdgeWave(<<0, 0>>, word) : word \in AccessWords} \cup {RingingWave}

\* load_data on a manager that holds no Region
LoadFresh(w) ==
    /\ regions = <<>>
    /\ LoadData(w)

\* the values passed to the update methods, next to the defaults
UpdateValues == {2}

update_field(rs, f, x) ==
    CASE f = "u_in"  -> update_input_voltage(rs, x)
      [] f = "d"     -> update_thickness(rs, x)
      [] f = "S"     -> update_area(rs, x)
      [] f = "C"     -> update_capacitance(rs, x)
      [] f = "t_ang" -> update_tilt_angle(rs, x)

\* the parameters a Region is constructed with
DefaultFields ==
    [u_in |-> Rat(10, 1), d |-> Rat(3, 1000000), S |-> Rat(100, 1000000),
     C |-> Rat(30, 1000000000), t_ang |-> Rat(45, 180)]

\* one of the five update methods of the manager; at most MaxEdited
\* parameters of a Region are away from their defaults at a time.  again
\* tells that the call before was the same call.
Update(f, x) ==
    LET rs == update_field(regions, f, x)
    IN /\ \A m \in 1..Len(rs) :
            Cardinality({g \in Fields : rs[m][g] # DefaultFields[g]}) <= MaxEdited
       /\ regions' = rs
       /\ last' = [op |-> "update", arg |-> <<f, x>>, exc |-> "none",
                   raised |-> "none", ret |-> <<>>,
                   again |-> (last.op = "update" /\ last.arg = <<f, x>>)]
       /\ UNCHANGED <<data_loaded, entries>>

GetSp ==
    LET g == get_sp(regions)
    IN /\ regions' = g.regions
       /\ last' = [op |-> "get_sp", arg |-> <<>>, exc |-> g.exc,
                   raised |-> g.exc, ret |-> get_sp_value(regions)]
       /\ UNCHANGED <<data_loaded, entries>>

GetRv ==
    LET g == get_rv(regions)
    IN /\ last' = [op |-> "get_rv", arg |-> <<>>, exc |-> g.exc,
                   raised |-> g.exc, ret |-> g.ret]
       /\ UNCHANGED <<regions, data_loaded, entries>>

GetDa ==
    LET g == get_da(regions)
    IN /\ last' = [op |-> "get_da", arg |-> <<>>, exc |-> g.exc,
                   raised |-> g.exc, ret |-> g.ret]
       /\ UNCHANGED <<regions, data_loaded, entries>>

\* the clicks tried: x = x2 / 2 for x2 in 0..MaxClick
MaxClick == 16

GetChosenRegion(x2) ==
    /\ last' = [op |-> "get_chosen_region", arg |-> <<x2>>, exc |-> "none",
                raised |-> "none", ret |-> get_chosen_region(regions, x2)]
    /\ UNCHANGED <<regions, data_loaded, entries>>

\* ------------------------------------------------------------------------
\* load_data, statement by statement through its second loop
\* ------------------------------------------------------------------------
\* last holds the position of the call: pc ("for": at the head of the border
\* loop, "while": inside a walk, "regions": before the third loop,
\* "returned", "raised"), the loop variables i and j and bor_indexes

StepWaves ==
    AccessWaves \cup {NotchWave, RisingEndsWave, RisingWave, <<0, 1>>, <<0>>}

\* a walk that goes on from the other end of the list
previous_cyclic(dv_dt, j) == (j - 1) % Len(dv_dt)

\* the index the walk reads: dv_dt[j - 1]
previous(dv_dt, j) == j - 1

\* the subscript k is one a list of this length accepts
subscript_ok(dv_dt, k) == k >= -Len(dv_dt) /\ k < Len(dv_dt)

Running == last.op = "load_data" /\ last.pc \in {"for", "while", "regions"}

\* the call, up to the head of the border loop: np.gradient, the extremum
\* scan and ext_indexes[0]
StartLoad(w) ==
    /\ ~Running
    /\ Len(regions) + Len(Segmented[w].built) <= MaxRegions
    /\ last' = IF Len(w) < 2
               THEN [op |-> "load_data", arg |-> w, exc |-> "ValueError",
                     raised |-> "ValueError", pc |-> "raised", i |-> 0, j |-> 0,
                     bor |-> <<>>]
               ELSE IF ext_indexes_of(gradient(w)) = <<>>
               THEN [op |-> "load_data", arg |-> w, exc |-> "IndexError",
                     raised |-> "IndexError", pc |-> "raised", i |-> 0, j |-> 0,
                     bor |-> <<>>]
               ELSE [op |-> "load_data", arg |-> w, exc |-> "none",
                     raised |-> "none", pc |-> "for",
                     i |-> ext_indexes_of(gradient(w))[1], j |-> 0, bor |-> <<>>]
    /\ UNCHANGED <<regions, data_loaded, entries>>

\* "for i in range(ext_indexes[0], len(time))": one iteration without a
\* walk, or the entry into a walk
ForStep ==
    LET dv_dt == gradient(last.arg)
        ext   == ext_indexes_of(dv_dt)
    IN /\ last.op = "load_data" /\ last.pc = "for"
       /\ last' = IF last.i > Len(dv_dt) - 1 THEN [last EXCEPT !.pc = "regions"]
                  ELSE IF Member(ext, last.i) /\ At(dv_dt, last.i) # 0
                  THEN [last EXCEPT !.pc = "while", !.j = last.i]
                  ELSE IF last.i > ext[Len(ext)] THEN [last EXCEPT !.pc = "regions"]
                  ELSE [last EXCEPT !.i = last.i + 1]
       /\ UNCHANGED <<regions, data_loaded, entries>>

\* "while True": one iteration of the walk
WhileStep ==
    LET dv_dt == gradient(last.arg)
        ext   == ext_indexes_of(dv_dt)
        k     == previous(dv_dt, last.j)
    IN /\ last.op = "load_data" /\ last.pc = "while"
       /\ last' = IF ~subscript_ok(dv_dt, k)
                  THEN [last EXCEPT !.pc = "raised", !.exc = "IndexError",
                                    !.raised = "IndexError"]
                  ELSE IF (IF At(dv_dt, last.i) > 0 THEN At(dv_dt, k) <= 0
                                                   ELSE At(dv_dt, k) >= 0)
                  THEN [last EXCEPT !.bor = Append(last.bor, last.j),
                                    !.pc = IF last.i > ext[Len(ext)]
                                           THEN "regions" ELSE "for",
                                    !.i = IF last.i > ext[Len(ext)]
                                          THEN last.i ELSE last.i + 1]
                  ELSE [last EXCEPT !.j = k]
       /\ UNCHANGED <<regions, data_loaded, entries>>

\* bor_indexes[0] and the third loop, whose range and inner ranges are
\* fixed when they start, then "self.data_loaded = True"
RegionsStep ==
    LET s == Segmented[last.arg]
    IN /\ last.op = "load_data" /\ last.pc = "regions"
       /\ regions' = regions \o s.built
       /\ data_loaded' = IF s.exc = "none" THEN TRUE ELSE data_loaded
       /\ last' = [last EXCEPT !.pc = IF s.exc = "none" THEN "returned" ELSE "raised",
                               !.exc = s.exc, !.raised = s.exc]
       /\ UNCHANGED entries

\* ------------------------------------------------------------------------
\* FLCAnalyzer handlers
\* ------------------------------------------------------------------------

\* update_bottom_left_panel: get_sp, get_rv, get_da of the manager; get_sp
\* raises on an empty list, get_rv and get_da change nothing
update_bottom_left_panel(rs) == get_sp(rs)

\* change_values: float() of an empty entry raises ValueError, which is
\* caught; the failure of update_bottom_left_panel is not
change_values(rs, loaded, e) ==
    IF \E f \in Fields : e[f] = <<>> THEN [regions |-> rs, raised |-> "none"]
    ELSE IF ~is_data_loaded(loaded) THEN [regions |-> rs, raised |-> "none"]
    ELSE LET r1 == update_input_voltage(rs, e.u_in[1])
             r2 == update_thickness(r1, e.d[1])
             r3 == update_area(r2, e.S[1])
             r4 == update_capacitance(r3, e.C[1])
             r5 == update_tilt_angle(r4, e.t_ang[1])
             p  == update_bottom_left_panel(r5)
         IN [regions |-> p.regions, raised |-> p.exc]

\* a guard that lets every acquisition through
acquired_always(w) == TRUE

\* "if time and voltage:" the lists read from the file are not empty
acquired(w) == w # <<>>

\* w = <<>>: the dialog was cancelled or the file held no sample
LoadDataFromFile(w) ==
    /\ UNCHANGED entries
    /\ IF ~acquired(w)
       THEN /\ UNCHANGED <<regions, data_loaded>>
            /\ last' = [op |-> "load_data_from_file", arg |-> w,
                        exc |-> "skipped", raised |-> "none"]
       ELSE LET s   == Segmented[w]
                rs1 == clear_data(regions) \o s.built
                cv  == change_values(rs1, TRUE, entries)
                p   == update_bottom_left_panel(cv.regions)
            IN IF s.exc # "none"
               THEN /\ regions' = rs1
                    /\ UNCHANGED data_loaded
                    /\ last' = [op |-> "load_data_from_file", arg |-> w,
                                exc |-> s.exc, raised |-> s.exc]
               ELSE /\ data_loaded' = TRUE
                    /\ regions' = IF cv.raised # "none" THEN cv.regions ELSE p.regions
                    /\ last' = [op |-> "load_data_from_file", arg |-> w,
                                exc |-> "none",
                                raised |-> IF cv.raised # "none" THEN cv.raised ELSE p.exc]

\* Scope.get_waveform has no return statement: unpacking its None result
\* raises TypeError before the manager is touched
LoadDataFromScope ==
    /\ last' = [op |-> "load_data_from_scope", arg |-> <<>>,
                exc |-> "skipped", raised |-> "TypeError"]
    /\ UNCHANGED <<regions, data_loaded, entries>>

\* an entry is edited: its write trace calls change_values
ChangeValues(f, x) ==
    LET e  == [entries EXCEPT ![f] = x]
        cv == change_values(regions, data_loaded, e)
    IN /\ Cardinality({g \in Fields : e[g] # DefaultEntries[g]}) <= MaxEdited
       /\ entries' = e
       /\ regions' = cv.regions
       /\ last' = [op |-> "change_values", arg |-> <<>>,
                   exc |-> "skipped", raised |-> cv.raised]
       /\ UNCHANGED data_loaded

\* ------------------------------------------------------------------------
\* Specifications
\* ------------------------------------------------------------------------

\* the program: the manager is driven by the handlers of FLCAnalyzer
Next ==
    \/ \E w \in Waveforms \cup {<<>>} : LoadDataFromFile(w)
    \/ LoadDataFromScope
    \/ \E f \in Fields : \E x \in EntryTexts \cup {DefaultEntries[f]} : ChangeValues(f, x)

Spec == Init /\ [][Next]_vars

\* the DataManager alone: its methods called in any order
NextApi ==
    \/ \E w \in Waveforms : LoadData(w)
    \/ ClearData

SpecApi == Init /\ [][NextApi]_vars

\* the DataManager after a load: its update methods and accessors called in
\* any order
NextAccess ==
    \/ \E w \in AccessWaves : LoadFresh(w)
    \/ ClearData
    \/ \E f \in Fields : \E x \in UpdateValues : Update(f, x)
    \/ GetSp
    \/ GetRv
    \/ GetDa
    \/ \E x2 \in 0..MaxClick : GetChosenRegion(x2)

SpecAccess == Init /\ [][NextAccess]_vars

\* load_data executed statement by statement: a call that has started
\* keeps running, and the next call starts when it has ended
NextSteps ==
    \/ \E w \in StepWaves : StartLoad(w)
    \/ ~Running /\ ClearData
    \/ ForStep
    \/ WhileStep
    \/ RegionsStep

SpecSteps ==
    Init /\ [][NextSteps]_vars /\ WF_vars(ForStep \/ WhileStep \/ RegionsStep)

\* ------------------------------------------------------------------------
\* Properties
\* ------------------------------------------------------------------------

\* the sample indexes 0..N-1 that range(lo, hi) reads from an N-sample list
Samples(lo, hi, N) == {IF j >= 0 THEN j ELSE N + j : j \in lo..(hi - 1)}

\* the samples of a Region (time is 0..N-1, so a time is a sample index)
RegionSamples(r) == {r.time[n] : n \in 1..Len(r.time)}

\* C1: loading the ramp waveform of the concrete scenario into an empty
\* manager returns normally and leaves exactly two Regions, an increasing
\* one followed by a decreasing one.
C1_RampGivesTwoRegions ==
    [][(regions = <<>> /\ last'.op = "load_data" /\ last'.arg = RampWave)
         => /\ last'.exc = "none"
            /\ Len(regions') = 2
            /\ regions'[1].increasing
            /\ ~regions'[2].increasing]_vars

\* C2: after loading the ramp waveform the manager holds an increasing Region
\* whose knee point time lies in [10, 20] and whose u_p and tau are nonzero.
C2_RampKneeInRise ==
    [][(regions = <<>> /\ last'.op = "load_data" /\ last'.arg = RampWave)
         => \E m \in 1..Len(regions') :
               /\ regions'[m].increasing
               /\ regions'[m].knee_point_time >= 10
               /\ regions'[m].knee_point_time <= 20
               /\ regions'[m].u_p # 0
               /\ regions'[m].tau.num # 0]_vars

\* C3: any two adjacent Regions of the list have opposite increasing flags.
C3_AdjacentAlternate ==
    \A m \in 1..(Len(regions) - 1) :
        regions[m].increasing # regions[m + 1].increasing

C3_Witness ==
    /\ last.op = "load_data_from_file"
    /\ Len(regions) >= 2
    /\ regions[1].increasing /\ ~regions[2].increasing

\* C4: in every Region built by a load, no sample of an increasing Region
\* has a negative derivative and no sample of a decreasing Region has a
\* positive one.
C4_UniformSign ==
    (last.op = "load_data_from_file" /\ last.arg # <<>>) =>
        LET dv_dt == gradient(last.arg) IN
        \A m \in 1..Len(regions) : \A t \in RegionSamples(regions[m]) :
            IF regions[m].increasing THEN At(dv_dt, t) >= 0 ELSE At(dv_dt, t) <= 0

\* C5: after a successful load, the window of each Region ends at the sample
\* right before the first sample of the next Region, and the two share no
\* sample.
C5_Contiguous ==
    (last.op = "load_data_from_file" /\ last.arg # <<>> /\ last.exc = "none") =>
        \A m \in 1..(Len(regions) - 1) :
            /\ get_borders(regions[m])[2] + 1 = get_borders(regions[m + 1])[1]
            /\ RegionSamples(regions[m]) \cap RegionSamples(regions[m + 1]) = {}

\* C6: after a successful load, the Regions together cover every sample from
\* the first border index to the last sample of the waveform.
C6_CoverToEnd ==
    (last.op = "load_data_from_file" /\ last.arg # <<>> /\ last.exc = "none") =>
        LET dv_dt == gradient(last.arg)
            bor   == bor_indexes_of(dv_dt, ext_indexes_of(dv_dt)).bor
        IN UNION {RegionSamples(regions[m]) : m \in 1..Len(regions)}
             = Samples(bor[1], Len(last.arg), Len(last.arg))

\* C7: a load whose extremum scan retains no extremum ends in the explicit
\* failure "no transitions detected", not in an index fault.
C7_NoTransitionsIsExplicit ==
    (last.op = "load_data" /\ Len(last.arg) >= 2
        /\ ext_indexes_of(gradient(last.arg)) = <<>>)
    => last.exc = "NoTransitionsDetected"

\* C8: a load_data that fails leaves the manager in its state before the
\* call or in the cleared state (no Region, loaded flag false).
C8_FailedLoadRollsBack ==
    [][(last'.op = "load_data" /\ last'.exc # "none")
         => \/ regions' = regions /\ data_loaded' = data_loaded
            \/ regions' = <<>> /\ data_loaded' = FALSE]_vars

\* C9: load_data called a second time with the same waveform leaves the
\* region list and the loaded flag as the first call left them.
C9_LoadIdempotent ==
    [][(last.op = "load_data" /\ last'.op = "load_data" /\ last'.arg = last.arg)
         => regions' = regions /\ data_loaded' = data_loaded]_vars

\* C10: after clear_data the region list is empty and is_data_loaded() is
\* false.
C10_ClearResets ==
    last.op = "clear_data" => regions = <<>> /\ ~is_data_loaded(data_loaded)

\* C11: in every state reached by updates and accessor calls, get_rv() of a
\* Region returns 10 * tau * s_p * u_in / d and get_da() returns
\* alpha * s_p * d / (u_in * e0 * sin(t_ang)^2) with s_p = u_p * C / (2 * S)
\* taken from the current C and S, whether or not get_sp() was called.
C11_AccessorsUseCurrentSp ==
    \A m \in 1..Len(regions) :
      LET r   == regions[m]
          s_p == RatDiv(RatMul(Rat(r.u_p, 1), r.C), RatMul(Rat(2, 1), r.S))
      IN /\ region_get_rv(r)
              = RatMul(Rat(10, 1),
                       RatDiv(RatMul(RatMul(RatDiv(r.tau, TauUnit), s_p), r.u_in), r.d))
         /\ region_get_da(r)
              = [alpha |-> r.alpha,
                 coef  |-> RatDiv(RatMul(RatMul(s_p, r.d), Rat(1000000000, 1)), r.u_in),
                 t_ang |-> r.t_ang]

\* C12: get_sp(), get_rv() and get_da() of the manager raise when the region
\* list is empty and return no value.
C12_EmptyListRaises ==
    (last.op \in {"get_sp", "get_rv", "get_da"} /\ regions = <<>>)
      => (last.raised = "ZeroDivisionError" /\ last.ret = <<>>)

\* get_da was called on a manager whose list was loaded and then cleared
C12_Witness ==
    /\ last.op = "get_da"
    /\ regions = <<>>
    /\ data_loaded
    /\ last.raised = "ZeroDivisionError"

\* C13: on a non-empty list get_sp(), get_rv() and get_da() of the manager
\* return the sum of the Regions' own accessor values divided by the number
\* of Regions; with one Region that is the Region's value itself.
C13_GettersAreMeans ==
    LET n == Len(regions)
        sp == [m \in 1..n |-> region_sp_value(regions[m])]
        rv == [m \in 1..n |-> region_get_rv(regions[m])]
        da == [m \in 1..n |-> region_get_da(regions[m])]
    IN n > 0 =>
         /\ last.op = "get_sp" =>
               /\ Len(last.ret) = 1
               /\ RatMul(last.ret[1], Rat(n, 1)) = RatSum(sp)
               /\ n = 1 => last.ret[1] = sp[1]
         /\ last.op = "get_rv" =>
               /\ Len(last.ret) = 1
               /\ RatMul(last.ret[1], Rat(n, 1)) = RatSum(rv)
               /\ n = 1 => last.ret[1] = rv[1]
         /\ last.op = "get_da" =>
               /\ Len(last.ret) = 1
               /\ IF n = 1 THEN last.ret[1] = da[1]
                  ELSE last.ret[1] = [sum |-> da, len |-> n]

\* get_rv was called on two Regions whose own values differ
C13_Witness ==
    /\ last.op = "get_rv"
    /\ Len(regions) = 2
    /\ region_get_rv(regions[1]) # region_get_rv(regions[2])
    /\ last.ret # <<region_get_rv(regions[1])>>

\* C14: after an update call of the manager with value x every Region stores
\* the value converted once: u_in = x, d = x / 10^6, S = x / 10^6,
\* C = x / 10^9, t_ang = x degrees in radians (x / 180 of pi); the same holds
\* when the call repeats the call before it.
C14_UpdateConvertsOnce ==
    last.op = "update" =>
      LET f == last.arg[1]
          x == last.arg[2]
          stored == CASE f = "u_in"  -> [num |-> x, den |-> 1]
                      [] f = "d"     -> Rat(x, 1000000)
                      [] f = "S"     -> Rat(x, 1000000)
                      [] f = "C"     -> Rat(x, 1000000000)
                      [] f = "t_ang" -> Rat(x, 180)
      IN \A m \in 1..Len(regions) : regions[m][f] = stored

\* update_thickness(2) was called twice in a row on two Regions
C14_Witness ==
    /\ last.op = "update"
    /\ last.arg = <<"d", 2>>
    /\ last.again
    /\ Len(regions) = 2
    /\ regions[2].d = [num |-> 1, den |-> 500000]

\* the time of the border that closed the window of a Region: the sample
\* after its last one (load_data slices range(buffer, i) at the border i)
ClosingBorder(r) == r.time[Len(r.time)] + 1

\* C15: get_chosen_region(x) returns the first Region in list order whose
\* window, from its start border to the border that closed it, strictly
\* contains x, and None when no window does; for x inside the window of an
\* increasing Region it returns that Region.
C15_ChosenRegionByWindow ==
    last.op = "get_chosen_region" =>
      LET x2 == last.arg[1]
          within(m) == /\ x2 > 2 * regions[m].time[1]
                       /\ x2 < 2 * ClosingBorder(regions[m])
      IN /\ \A m \in 1..Len(regions) :
              (within(m) /\ \A n \in 1..(m - 1) : ~within(n)) => last.ret = <<m>>
         /\ (\A m \in 1..Len(regions) : ~within(m)) => last.ret = <<>>
         /\ \A m \in 1..Len(regions) :
              (within(m) /\ regions[m].increasing)
                => (last.ret = <<m>> /\ regions[last.ret[1]].increasing)

\* C16: every Region whose construction completed has u_p >= 0 and
\* u_c >= 0, increasing or decreasing.
C16_VoltagesNonNegative ==
    \A m \in 1..Len(regions) : regions[m].u_p >= 0 /\ regions[m].u_c >= 0

\* a decreasing Region follows an increasing one, both with u_p > 0 and
\* u_c > 0
C16_Witness ==
    /\ Len(regions) = 2
    /\ regions[1].increasing /\ ~regions[2].increasing
    /\ regions[1].u_p > 0 /\ regions[2].u_p > 0
    /\ regions[1].u_c > 0 /\ regions[2].u_c > 0

\* C17: every Region whose construction completed has t60_time >= t40_time
\* and tau >= 0, with tau > 0 exactly when t60_time > t40_time, also when
\* no sample reaches the t40 or the t60 threshold.
C17_TauNonNegative ==
    \A m \in 1..Len(regions) :
      /\ regions[m].t60_time >= regions[m].t40_time
      /\ regions[m].tau.num >= 0
      /\ regions[m].tau.num > 0 <=> regions[m].t60_time > regions[m].t40_time

C19_DerivativeReadsInRange ==
    (last.op = "load_data" /\ Len(last.arg) >= 2) =>
      LET dv_dt == gradient(last.arg)
      IN \A j \in ScanReads(dv_dt) \cup BorderReads(dv_dt, ext_indexes_of(dv_dt)) :
           j \in 0..(Len(dv_dt) - 1)

\* C20: during the construction of a Region the knee search does not read
\* the derivative past the last sample of the Region: no load_data ends
\* with the IndexError that dv_dt[i + 1] raises at the last index i.
C20_KneeSearchInRange ==
    last.op = "load_data" =>
      ~(Segmented[last.arg].exc = "IndexError" /\ Segmented[last.arg].at = "Region")

\* the clusters of a derivative: the maximal runs lo..hi of consecutive
\* indexes whose derivative is above max_threshold (rise = TRUE) or below
\* min_threshold (rise = FALSE)
Clusters(dv_dt) ==
    LET N == Len(dv_dt)
        in(i, rise) == IF rise THEN AboveThreshold(dv_dt[i + 1], SeqMax(dv_dt))
                       ELSE BelowThreshold(dv_dt[i + 1], SeqMin(dv_dt))
    IN {c \in [lo : 0..(N - 1), hi : 0..(N - 1), rise : BOOLEAN] :
          /\ c.lo <= c.hi
          /\ \A i \in c.lo..c.hi : in(i, c.rise)
          /\ c.lo = 0 \/ ~in(c.lo - 1, c.rise)
          /\ c.hi = N - 1 \/ ~in(c.hi + 1, c.rise)}

\* the indexes of a cluster whose derivative is more extreme than their
\* predecessor's
MoreExtreme(dv_dt, c) ==
    {i \in c.lo..c.hi :
       i > 0 /\ (IF c.rise THEN dv_dt[i + 1] > dv_dt[i] ELSE dv_dt[i + 1] < dv_dt[i])}

\* C21: every cluster of the derivative contributes exactly one index to
\* ext_indexes, the last index of the cluster whose derivative is more
\* extreme than its predecessor's.
C21_OneExtremumPerCluster ==
    (last.op = "load_data" /\ Len(last.arg) >= 2) =>
      LET dv_dt == gradient(last.arg)
          ext   == ext_indexes_of(dv_dt)
      IN \A c \in Clusters(dv_dt) :
           MoreExtreme(dv_dt, c) # {} =>
             /\ Cardinality({n \in 1..Len(ext) : ext[n] \in c.lo..c.hi}) = 1
             /\ \E n \in 1..Len(ext) :
                  /\ ext[n] \in MoreExtreme(dv_dt, c)
                  /\ \A i \in MoreExtreme(dv_dt, c) : i <= ext[n]

\* C22: the list ext_indexes built by load_data is strictly ascending, and
\* the list bor_indexes is non-decreasing.
C22_IndexListsAscend ==
    (last.op = "load_data" /\ Len(last.arg) >= 2) =>
      LET dv_dt == gradient(last.arg)
          ext   == ext_indexes_of(dv_dt)
          bor   == bor_indexes_of(dv_dt, ext).bor
      IN /\ \A n \in 1..(Len(ext) - 1) : ext[n] < ext[n + 1]
         /\ \A n \in 1..(Len(bor) - 1) : bor[n] <= bor[n + 1]

\* the extrema the border loop walks from before it stops or raises, each
\* with the border its walk records: <<e, b>>
RecordedBorders(dv_dt, ext_indexes) ==
    IF ext_indexes = <<>> THEN {}
    ELSE
      LET N       == Len(dv_dt)
          first   == ext_indexes[1]
          past    == ext_indexes[Len(ext_indexes)] + 1
          stop    == IF past > first THEN past ELSE first
          visited == {i \in first..(IF stop < N - 1 THEN stop ELSE N - 1) :
                        Member(ext_indexes, i) /\ At(dv_dt, i) # 0}
          walk(i) == BorderWalk(dv_dt, i, At(dv_dt, i) > 0)
      IN {<<i, walk(i).j>> : i \in {k \in visited : walk(k).exc = "none"}}

\* C23: the border b recorded for an extremum e with positive derivative is
\* an index of the waveform with b <= e, dv_dt[k] > 0 for all k in b..e and
\* dv_dt[b - 1] <= 0 (b = 0 has no predecessor); the same with < 0 and >= 0
\* for an extremum with negative derivative.
C23_BorderStartsTheRun ==
    (last.op = "load_data" /\ Len(last.arg) >= 2) =>
      LET dv_dt == gradient(last.arg)
      IN \A p \in RecordedBorders(dv_dt, ext_indexes_of(dv_dt)) :
           LET e == p[1]
               b == p[2]
           IN /\ b \in 0..e
              /\ IF dv_dt[e + 1] > 0
                 THEN /\ \A k \in b..e : dv_dt[k + 1] > 0
                      /\ b = 0 \/ dv_dt[b] <= 0
                 ELSE /\ \A k \in b..e : dv_dt[k + 1] < 0
                      /\ b = 0 \/ dv_dt[b] >= 0

\* C24: no Region exists whose alpha was computed from fewer than two
\* points: when the filter keeps fewer than two samples (or none) the
\* construction raises and load_data ends with that exception.
C24_AlphaNeedsTwoPoints ==
    \A m \in 1..Len(regions) :
      /\ Len(regions[m].alpha.t_norm) >= 2
      /\ Len(regions[m].alpha.u_num) = Len(regions[m].alpha.t_norm)

\* a load ended with the exception raised by a Region whose filter kept too
\* few samples
C24_Witness ==
    /\ last.op = "load_data_from_file"
    /\ last.exc = "ValueError"
    /\ Len(last.arg) >= 2
    /\ Segmented[last.arg].at = "Region"

\* C25: every call of load_data ends, with a return or with an exception:
\* the border loop and the 'while True' walk inside it take finitely many
\* steps.
C25_LoadDataTerminates ==
    Running ~> (last.op = "load_data" /\ last.pc \in {"returned", "raised"})

\* a walk that passed index 0 and wrapped around the whole list has ended
\* with IndexError
C25_Witness ==
    /\ last.op = "load_data"
    /\ last.pc = "raised"
    /\ last.j = -Len(last.arg)

\* C26: in every Region the t40 point is the first sample at or after the
\* knee whose voltage reaches knee_voltage + 0.4 * u_p and the t60 point the
\* first sample at or after the t40 point whose voltage reaches
\* knee_voltage + 0.6 * u_p (with <= and minus for a decreasing Region), so
\* both are samples of the Region and knee_time <= t40_time <= t60_time.
C26_MarkersAreFirstCrossings ==
    \A m \in 1..Len(regions) :
      LET r  == regions[m]
          V  == Directed(r.voltage, r.increasing)
          n  == Len(r.time)
          at(t) == CHOOSE q \in 1..n : r.time[q] = t
          reaches(q, tenths) ==
              10 * V[q] >= 10 * (IF r.increasing THEN r.knee_point_voltage
                                 ELSE -r.knee_point_voltage) + tenths * r.u_p
      IN /\ r.t40_time \in RegionSamples(r)
         /\ r.t60_time \in RegionSamples(r)
         /\ r.knee_point_time <= r.t40_time
         /\ r.t40_time <= r.t60_time
         /\ reaches(at(r.t40_time), 4)
         /\ \A q \in at(r.knee_point_time)..(at(r.t40_time) - 1) : ~reaches(q, 4)
         /\ r.t40_voltage = r.voltage[at(r.t40_time)]
         /\ reaches(at(r.t60_time), 6)
         /\ \A q \in at(r.t40_time)..(at(r.t60_time) - 1) : ~reaches(q, 6)
         /\ r.t60_voltage = r.voltage[at(r.t60_time)]

\* C27: an update call of the manager changes the named parameter of each
\* Region and nothing else: the number and order of the Regions, every
\* other field of each Region and the loaded flag stay as they were.
C27_UpdateChangesOneField ==
    [][last'.op = "update" =>
         /\ Len(regions') = Len(regions)
         /\ \A m \in 1..Len(regions) :
              [regions'[m] EXCEPT ![last'.arg[1]] = regions[m][last'.arg[1]]]
                = regions[m]
         /\ data_loaded' = data_loaded]_vars

\* update_area(2) was called on two Regions whose s_p had been stored
C27_Witness ==
    /\ last.op = "update"
    /\ last.arg = <<"S", 2>>
    /\ Len(regions) = 2
    /\ regions[1].S = [num |-> 1, den |-> 500000]
    /\ regions[1].s_p # Rat(0, 1)

\* C28: whenever is_data_loaded() returns true the region list is not
\* empty.
C28_LoadedMeansRegions ==
    is_data_loaded(data_loaded) => regions # <<>>

\* C29: the accessors of a Region change nothing that another accessor
\* returns: a call of get_sp, get_rv, get_da or get_chosen_region leaves
\* the values of get_rv and get_da of every Region as they were.
C29_AccessorsArePure ==
    [][last'.op \in {"get_sp", "get_rv", "get_da", "get_chosen_region"} =>
         \A m \in 1..Len(regions) :
           /\ region_get_rv(regions'[m]) = region_get_rv(regions[m])
           /\ region_get_da(regions'[m]) = region_get_da(regions[m])]_vars

============================================================================
